---- MODULE Spec2Model ----
(***************************************************************************)
(* A model of git-manager.py: the GitHub organisation manager.            *)
(*                                                                         *)
(* The program is single threaded.  Every step of the model is one        *)
(* iteration of one of its loops, that is one call of make_request and    *)
(* the code that handles its return value.  The GitHub server is the     *)
(* environment: what it answers to an endpoint is unknown until the       *)
(* endpoint is first requested, and stays the same afterwards (nothing    *)
(* mutates the organisation); any single request may besides fail in the  *)
(* transport (connection error, timeout).                                  *)
(***************************************************************************)
EXTENDS Integers, Sequences, FiniteSets, TLC

\* ------------------------------------------------------------- bounds
\* The organisation lists at most MaxRepos repository records in all.
MaxRepos == 2
\* When get_user_repo_access is called twice, at most MaxFailures requests
\* of the two calls fail in the transport.
MaxFailures == 1
\* The organisation lists at most MaxMembers member records in all.
MaxMembers == 2
\* A sub-call of run_action that loops over pages or records issues between
\* one and MaxBurst requests.
MaxBurst == 2

\* ------------------------------------------------------------- the data
RepoNames == {"api", "web"}
Perms == {"push", "admin"}
\* A team record of a membership listing: the slug is the key of the
\* requests, the name is what the report shows.
Teams == { [slug |-> "frontend", name |-> "frontend"],
           [slug |-> "back-end", name |-> "Back End"] }
TeamSlugs == { t.slug : t \in Teams }

\* ------------------------------------------------------------- Transport
\* What make_request returns: None, a JSON object (its keys, and the value
\* of its "permission" key when it has one), or a JSON array (its items).
None == [type |-> "None", keys |-> {}, permission |-> "", email |-> <<>>, items |-> <<>>]
Dict(ks, p) == [type |-> "dict", keys |-> ks, permission |-> p, email |-> <<>>, items |-> <<>>]
List(xs) == [type |-> "list", keys |-> {}, permission |-> "", email |-> <<>>, items |-> xs]
\* A JSON string or number: a value that is neither an object nor an array.
Scalar == [type |-> "scalar", keys |-> {}, permission |-> "", email |-> <<>>, items |-> <<>>]
\* A body that is not JSON text: response.json() raises on it.
NotJson == [type |-> "notjson", keys |-> {}, permission |-> "", email |-> <<>>, items |-> <<>>]
\* An exception that leaves make_request: no `except` clause catches it.
AttributeError ==
    [type |-> "AttributeError", keys |-> {}, permission |-> "", email |-> <<>>, items |-> <<>>]
ValueError ==
    [type |-> "ValueError", keys |-> {}, permission |-> "", email |-> <<>>, items |-> <<>>]
Raised(r) == r.type \in {"AttributeError", "ValueError"}
\* A user profile: its "email" is a string, by its characters (<<>>: null).
Profile(e) ==
    [type |-> "dict", keys |-> {"login", "email"}, permission |-> "", email |-> e, items |-> <<>>]

\* What the HTTP layer produces for one request: an exception of the
\* requests library, or a status with a body (empty, or JSON text).
ConnError == [exc |-> TRUE, status |-> 0, empty |-> TRUE, json |-> None]
Http(st, body) == [exc |-> FALSE, status |-> st, empty |-> FALSE, json |-> body]
HttpEmpty(st) == [exc |-> FALSE, status |-> st, empty |-> TRUE, json |-> None]
\* An endpoint the server has not been asked yet.
Unasked == [exc |-> FALSE, status |-> 0, empty |-> TRUE, json |-> None]

SuccessStatus == {200, 201, 204}

\* make_request: the value handed to the caller for an HTTP outcome, or the
\* exception that leaves it.  A status outside SuccessStatus has its message
\* read with response.json().get(..) when the body is not empty: json()
\* raises on a body that is not JSON (caught: None), and .get raises an
\* AttributeError on a parsed body that is not an object (not caught).  A
\* success status returns response.json(), that is None for the body `null`,
\* or {} for an empty body.
make_request(o) ==
    IF o.exc THEN None
    ELSE IF o.status \notin SuccessStatus
         THEN IF o.empty THEN None
              ELSE IF o.json.type = "notjson" THEN None
              ELSE IF o.json.type # "dict" THEN AttributeError
              ELSE None
    ELSE IF o.empty THEN Dict({}, "")
    ELSE IF o.json.type = "notjson" THEN None
    ELSE o.json

\* Python's truth value of a returned value: None, {} and [] are false.
Truthy(r) ==
    \/ r.type = "dict" /\ r.keys # {}
    \/ r.type = "list" /\ r.items # <<>>

\* `resp and 'permission' in resp`
HasPermission_anyDict(r) == r.type = "dict"

HasPermission(r) == Truthy(r) /\ "permission" \in r.keys

\* ------------------------------------------------------------- the server
NotFound == Http(404, Dict({"message"}, ""))
\* An error status whose body is JSON but not an object (a JSON string).
ErrorNotObject == Http(500, Scalar)

\* GET /repos/{org}/{repo}/collaborators/{user}/permission
CollabAnswers ==
    {NotFound, ErrorNotObject}
        \cup { Http(200, Dict({"permission", "user"}, p)) : p \in Perms }

\* GET /orgs/{org}/teams/{slug}/repos/{org}/{repo}
TeamRepoAnswers ==
    {Http(200, Dict({"permissions", "name"}, "")), ErrorNotObject}
        \cup { Http(200, Dict({"permission", "name"}, p)) : p \in Perms }

\* The listings of teams: every ordering of every set of teams.
TeamLists ==
    {<<>>} \cup { <<t>> : t \in Teams }
           \cup { <<tu[1], tu[2]>> : tu \in { x \in Teams \X Teams : x[1] # x[2] } }

\* GET /orgs/{org}/memberships/{user}/teams
TeamsAnswers == {ErrorNotObject} \cup { Http(200, List(ts)) : ts \in TeamLists }

\* The sequences over S of length 1..n.
SeqsUpTo(S, n) == UNION { [1..k -> S] : k \in 1..n }

\* `per_page=100`: the server puts at most that many records on a page (the
\* hundred of the program is scaled down to two).
PerPage == 2

\* The records a page can hold when the listing has room for `room` more.
PageRoom(room) == IF room < PerPage THEN room ELSE PerPage

\* GET /orgs/{org}/repos?page=..&per_page=..: a page of records, or [].
RepoPageAnswers(room) ==
    {Http(200, List(<<>>)), ErrorNotObject}
        \cup { Http(200, List(xs)) : xs \in SeqsUpTo(RepoNames, PageRoom(room)) }

\* What a request of an endpoint produces: the transport fails, or the
\* server answers (as it did before, when it was asked before).
Answers(known, fresh) == IF known = Unasked THEN fresh ELSE {known}

Outcomes(known, fresh, mayFail) ==
    (IF mayFail THEN {ConnError} ELSE {}) \cup Answers(known, fresh)

\* The server's answer as it is remembered after the request.
Learned(known, o) == IF o.exc THEN known ELSE o

VARIABLES
    pc,            \* where get_user_repo_access stands
    srv,           \* the server's answers so far, by endpoint
    page,          \* list_repos: page
    all_repos,     \* list_repos: all_repos
    pageLog,       \* history: the page requests made and what each returned
    repos,         \* get_user_repo_access: repos (names of the records)
    idx,           \* position of `for repo in repos` (1-based)
    access_repos,  \* get_user_repo_access: access_repos
    user_teams,    \* get_user_repo_access: user_teams
    tidx,          \* position of `for team_membership in user_teams`
    log,           \* history: per position of repos, what its lookups returned
    reqLog,        \* history: the requests of the call, in the order issued
    result,        \* the returned value
    calls,         \* how often the caller calls get_user_repo_access (1 or 2)
    run,           \* the number of the current call
    first,         \* history: what the first call returned
    fails,         \* history: failed requests when there are two calls
    \* validate_user_input / get_user_from_email
    ipc,           \* where validate_user_input stands
    user_input,    \* the identifier, by its characters
    org,           \* the org argument is given (not None, not empty)
    profiles,      \* the server: the profile request's answer, by login
    mpage,         \* get_user_from_email: page
    all_members,   \* get_user_from_email: all_members (the logins)
    memberLog,     \* history: the member page requests and what each returned
    midx,          \* position of `for member in all_members`
    profLog,       \* history: what the profile request of each member returned
    resolved,      \* what validate_user_input returned
    \* the command line
    cpc,           \* where the process stands
    token,         \* TOKEN is set in the environment
    args,          \* the parsed arguments
    resolved_username,  \* run_action: resolved_username
    requests,      \* history: the Transport requests issued so far
    exit_code,     \* the exit status (-1: running)
    config_error,  \* history: the exit reports a missing token or flag
    \* one invocation of make_request
    tpc,           \* where make_request stands
    method,        \* the method argument
    response,      \* make_request: response (the outcome of the network call)
    netcalls,      \* history: the network calls issued by the invocation
    returned       \* what the invocation returned, or the exception it raised

accessVars == <<pc, srv, page, all_repos, pageLog, repos, idx, access_repos,
                user_teams, tidx, log, reqLog, result, calls, run, first, fails>>
identVars == <<ipc, user_input, org, profiles, mpage, all_members, memberLog,
               midx, profLog, resolved>>
cliVars == <<cpc, token, args, resolved_username, requests, exit_code, config_error>>

transportVars == <<tpc, method, response, netcalls, returned>>

vars == <<accessVars, identVars, cliVars, transportVars>>

\* The variables no step of get_user_repo_access changes.
callVars == <<calls, run, first, identVars, cliVars, transportVars>>

Pages == 1..(MaxRepos + 1)

InitSrv ==
    [ repos    |-> [p \in Pages |-> Unasked],
      collab   |-> [r \in RepoNames |-> Unasked],
      teams    |-> Unasked,
      teamrepo |-> [s \in TeamSlugs |-> [r \in RepoNames |-> Unasked]] ]

\* No user, in resolved and resolved_username (Python's None).
NoUser == <<>>

\* One call of get_user_repo_access; nothing else runs.
Init ==
    /\ pc = "idle"
    /\ srv = InitSrv
    /\ page = 1
    /\ all_repos = <<>>
    /\ pageLog = <<>>
    /\ repos = <<>>
    /\ idx = 1
    /\ access_repos = <<>>
    /\ user_teams = None
    /\ tidx = 1
    /\ log = <<>>
    /\ reqLog = <<>>
    /\ result = <<>>
    /\ calls = 1
    /\ run = 1
    /\ first = <<>>
    /\ fails = 0
    /\ ipc = "off"
    /\ user_input = <<>>
    /\ org = FALSE
    /\ profiles = <<>>
    /\ mpage = 1
    /\ all_members = <<>>
    /\ memberLog = <<>>
    /\ midx = 1
    /\ profLog = <<>>
    /\ resolved = NoUser
    /\ cpc = "off"
    /\ token = TRUE
    /\ args = <<>>
    /\ resolved_username = NoUser
    /\ requests = 0
    /\ exit_code = -1
    /\ config_error = FALSE
    /\ tpc = "off"
    /\ method = "GET"
    /\ response = Unasked
    /\ netcalls = 0
    /\ returned = None

\* Any request of a single call may fail; of two calls, MaxFailures in all.
MayFail == calls = 1 \/ fails < MaxFailures
Failed(o) == IF calls = 2 /\ o.exc THEN fails + 1 ELSE fails

\* ------------------------------------------------------------- entries
\* f"{repo['name']} (Direct: {permission})", by its pieces.
DirectEntry(name, p) == <<name, " (Direct: ", p, ")">>
\* f"{repo['name']} (Via team '{team name}': {permission})"
TeamEntry_slug(name, team, p) == <<name, " (Via team '", team.slug, "': ", p, ")">>

TeamEntry(name, team, p) == <<name, " (Via team '", team.name, "': ", p, ")">>

\* access_repos.append(entry)
AppendEntry_front(s, e) == <<e>> \o s

AppendEntry(s, e) == Append(s, e)

\* ------------------------------------------------------------- list_repos
\* get_user_repo_access is called: list_repos starts.
StartAccess ==
    /\ pc = "idle"
    /\ pc' = "list"
    /\ page' = 1
    /\ all_repos' = <<>>
    /\ pageLog' = <<>>
    /\ reqLog' = <<>>
    /\ UNCHANGED <<srv, repos, idx, access_repos, user_teams, tidx, log, result, callVars, fails>>

\* A request as reqLog keeps it: the endpoint (kind, and the repository name
\* and team slug of its URL, "" when it has none), the position in repos and
\* in user_teams it is made for (the page, for a listing request), and what
\* make_request did with it.
Request(kind, pos, team, name, slug, r) ==
    [kind |-> kind, pos |-> pos, team |-> team, name |-> name, slug |-> slug, ret |-> r]

\* The loop of list_repos on a returned value: stop on None and on an empty
\* page, else extend and go on with the next page.
PageStops(r) == r.type = "None" \/ ~Truthy(r)

Extend_dedup(all, items) ==
    all \o SelectSeq(items, LAMBDA x : \A i \in 1..Len(all) : all[i] # x)

Extend(all, items) == all \o items

NextPage(p) == p + 1

\* `access_repos = []`: the entries of the call start empty, whatever an
\* earlier call left.
NewAccessRepos_keep(old) == old

NewAccessRepos(old) == <<>>

\* One iteration of `while True` in list_repos; when the loop ends, the
\* listing is returned to get_user_repo_access, which starts its own loop.
ListReposPage ==
    /\ pc = "list"
    /\ \E o \in Outcomes(srv.repos[page], RepoPageAnswers(MaxRepos - Len(all_repos)), MayFail) :
         LET r == make_request(o) IN
         /\ srv' = [srv EXCEPT !.repos[page] = Learned(@, o)]
         /\ reqLog' = Append(reqLog, Request("repos", page, 0, "", "", r))
         /\ fails' = Failed(o)
         /\ IF Raised(r)
            THEN /\ pc' = "raised"
                 /\ UNCHANGED <<pageLog, page, all_repos, repos, access_repos, idx, log>>
            ELSE /\ pageLog' = Append(pageLog, [page |-> page, resp |-> r])
                 /\ IF PageStops(r)
                    THEN /\ repos' = all_repos
                         /\ access_repos' = NewAccessRepos(access_repos)
                         /\ idx' = 1
                         /\ log' = <<>>
                         /\ pc' = "repo"
                         /\ UNCHANGED <<page, all_repos>>
                    ELSE /\ all_repos' = Extend(all_repos, r.items)
                         /\ page' = NextPage(page)
                         /\ UNCHANGED <<pc, repos, access_repos, idx, log>>
    /\ UNCHANGED <<user_teams, tidx, result, callVars>>

\* ------------------------------------------------------------- the loop
NoLookups(name) ==
    [repo |-> name, direct |-> None, asked |-> FALSE, teams |-> None, tperms |-> <<>>]

\* The direct collaborator check of repos[idx].
DirectLookup ==
    /\ pc = "repo"
    /\ idx <= Len(repos)
    /\ \E o \in Outcomes(srv.collab[repos[idx]], CollabAnswers, MayFail) :
         LET r == make_request(o) IN
         /\ srv' = [srv EXCEPT !.collab[repos[idx]] = Learned(@, o)]
         /\ reqLog' = Append(reqLog, Request("direct", idx, 0, repos[idx], "", r))
         /\ fails' = Failed(o)
         /\ IF Raised(r)
            THEN /\ pc' = "raised"
                 /\ UNCHANGED <<log, access_repos, idx>>
            ELSE /\ log' = Append(log, [NoLookups(repos[idx]) EXCEPT !.direct = r])
                 /\ IF HasPermission(r)
                    THEN /\ access_repos' =
                              AppendEntry(access_repos, DirectEntry(repos[idx], r.permission))
                         /\ idx' = idx + 1
                         /\ UNCHANGED pc
                    ELSE /\ pc' = "teams"
                         /\ UNCHANGED <<access_repos, idx>>
    /\ UNCHANGED <<page, all_repos, pageLog, repos, user_teams, tidx, result, callVars>>

\* The teams the user belongs to, fetched for repos[idx].
TeamsLookup ==
    /\ pc = "teams"
    /\ \E o \in Outcomes(srv.teams, TeamsAnswers, MayFail) :
         LET r == make_request(o) IN
         /\ srv' = [srv EXCEPT !.teams = Learned(@, o)]
         /\ reqLog' = Append(reqLog, Request("teams", idx, 0, "", "", r))
         /\ fails' = Failed(o)
         /\ IF Raised(r)
            THEN /\ pc' = "raised"
                 /\ UNCHANGED <<log, user_teams, tidx, idx>>
            ELSE /\ log' = [log EXCEPT ![idx].asked = TRUE, ![idx].teams = r]
                 /\ user_teams' = r
                 /\ IF Truthy(r)
                    THEN /\ tidx' = 1
                         /\ pc' = "teamperm"
                         /\ UNCHANGED idx
                    ELSE /\ idx' = idx + 1
                         /\ pc' = "repo"
                         /\ UNCHANGED tidx
    /\ UNCHANGED <<page, all_repos, pageLog, repos, access_repos, result, callVars>>

\* `for team_membership in user_teams` is exhausted after the k-th of n teams
\* (r is what the k-th lookup returned: it plays no part).
LastTeam_orFailed(r, k, n) == k = n \/ r.type = "None"

LastTeam(r, k, n) == k = n

\* `break` after the entry of the k-th of n teams: the loop over the teams is
\* left at once.
BreakOnGrant_exhaust(k, n) == k = n

BreakOnGrant(k, n) == TRUE

\* One iteration of `for team_membership in user_teams` for repos[idx].
TeamPermLookup ==
    /\ pc = "teamperm"
    /\ tidx <= Len(user_teams.items)
    /\ LET team == user_teams.items[tidx] IN
       \E o \in Outcomes(srv.teamrepo[team.slug][repos[idx]], TeamRepoAnswers, MayFail) :
         LET r == make_request(o) IN
         /\ srv' = [srv EXCEPT !.teamrepo[team.slug][repos[idx]] = Learned(@, o)]
         /\ reqLog' = Append(reqLog, Request("teamperm", idx, tidx, repos[idx], team.slug, r))
         /\ fails' = Failed(o)
         /\ IF Raised(r)
            THEN /\ pc' = "raised"
                 /\ UNCHANGED <<log, access_repos, idx, tidx>>
            ELSE /\ log' = [log EXCEPT ![idx].tperms = Append(@, r)]
                 /\ IF HasPermission(r)
                    THEN /\ access_repos' =
                              AppendEntry(access_repos, TeamEntry(repos[idx], team, r.permission))
                         /\ IF BreakOnGrant(tidx, Len(user_teams.items))
                            THEN idx' = idx + 1 /\ pc' = "repo" /\ UNCHANGED tidx
                            ELSE tidx' = tidx + 1 /\ UNCHANGED <<idx, pc>>
                    ELSE /\ UNCHANGED access_repos
                         /\ IF LastTeam(r, tidx, Len(user_teams.items))
                            THEN idx' = idx + 1 /\ pc' = "repo" /\ UNCHANGED tidx
                            ELSE tidx' = tidx + 1 /\ UNCHANGED <<idx, pc>>
    /\ UNCHANGED <<page, all_repos, pageLog, repos, user_teams, result, callVars>>

\* The loop over repos is over: the report is printed and returned.
ReturnAccess ==
    /\ pc = "repo"
    /\ idx > Len(repos)
    /\ pc' = "done"
    /\ result' = access_repos
    /\ UNCHANGED <<srv, page, all_repos, pageLog, repos, idx, access_repos,
                   user_teams, tidx, log, reqLog, callVars, fails>>

Next ==
    \/ StartAccess
    \/ ListReposPage
    \/ DirectLookup
    \/ TeamsLookup
    \/ TeamPermLookup
    \/ ReturnAccess

Spec == Init /\ [][Next]_vars

\* ------------------------------------------------------------- two calls
\* The caller calls get_user_repo_access(org, username) a second time, with
\* the same arguments, once the first call has returned; nothing changes the
\* organisation in between (srv is kept).
CallAgain ==
    /\ pc = "done"
    /\ run < calls
    /\ run' = run + 1
    /\ first' = result
    /\ pc' = "idle"
    /\ UNCHANGED <<srv, page, all_repos, pageLog, repos, idx, access_repos,
                   user_teams, tidx, log, reqLog, result, calls, fails, identVars, cliVars,
                   transportVars>>

\* Two calls of get_user_repo_access.
InitTwice ==
    /\ pc = "idle"
    /\ srv = InitSrv
    /\ page = 1
    /\ all_repos = <<>>
    /\ pageLog = <<>>
    /\ repos = <<>>
    /\ idx = 1
    /\ access_repos = <<>>
    /\ user_teams = None
    /\ tidx = 1
    /\ log = <<>>
    /\ reqLog = <<>>
    /\ result = <<>>
    /\ calls = 2
    /\ run = 1
    /\ first = <<>>
    /\ fails = 0
    /\ ipc = "off"
    /\ user_input = <<>>
    /\ org = FALSE
    /\ profiles = <<>>
    /\ mpage = 1
    /\ all_members = <<>>
    /\ memberLog = <<>>
    /\ midx = 1
    /\ profLog = <<>>
    /\ resolved = NoUser
    /\ cpc = "off"
    /\ token = TRUE
    /\ args = <<>>
    /\ resolved_username = NoUser
    /\ requests = 0
    /\ exit_code = -1
    /\ config_error = FALSE
    /\ tpc = "off"
    /\ method = "GET"
    /\ response = Unasked
    /\ netcalls = 0
    /\ returned = None

NextTwice ==
    \/ StartAccess
    \/ ListReposPage
    \/ DirectLookup
    \/ TeamsLookup
    \/ TeamPermLookup
    \/ ReturnAccess
    \/ CallAgain

SpecTwice == InitTwice /\ [][NextTwice]_vars

\* ------------------------------------------------------------- identity
\* Logins, identifiers and emails are strings the code looks into: they are
\* given by their characters.
Alice == <<"a", "l", "i", "c", "e">>
Bob == <<"b", "o", "b">>
Logins == {Alice, Bob}

\* The identifiers given with --user: a username, and two spellings of an
\* email address.
Identifiers == { Bob, <<"a", "@", "b">>, <<"A", "@", "B">> }

\* The public emails of the profiles (<<>>: none).
ProfileEmails == { <<>>, <<"a", "@", "b">>, <<"A", "@", "b">>, <<"c", "@", "b">> }

\* GET /users/{login}
ProfileAnswers == {NotFound, ErrorNotObject} \cup { Http(200, Profile(e)) : e \in ProfileEmails }

\* GET /orgs/{org}/members?page=..
MemberPageAnswers(room) ==
    {Http(200, List(<<>>)), ErrorNotObject}
        \cup { Http(200, List(xs)) : xs \in SeqsUpTo(Logins, PageRoom(room)) }

\* `"@" in user_input`
HasAt(s) == \E i \in 1..Len(s) : s[i] = "@"

\* str.lower(), character by character.
LowerChar(c) ==
    CASE c = "A" -> "a"
      [] c = "B" -> "b"
      [] c = "C" -> "c"
      [] OTHER -> c

Lower_asIs(str) == str

Lower(str) == [i \in 1..Len(str) |-> LowerChar(str[i])]

\* user_profile and user_profile.get('email') and
\* user_profile['email'].lower() == email.lower()
EmailMatches(r, email) ==
    /\ Truthy(r)
    /\ "email" \in r.keys /\ r.email # <<>>
    /\ Lower(r.email) = Lower(email)

\* validate_user_input is called with an identifier, with or without org; the
\* server has a profile answer for every login.
InitIdent ==
    /\ pc = "off"
    /\ srv = InitSrv
    /\ page = 1
    /\ all_repos = <<>>
    /\ pageLog = <<>>
    /\ repos = <<>>
    /\ idx = 1
    /\ access_repos = <<>>
    /\ user_teams = None
    /\ tidx = 1
    /\ log = <<>>
    /\ reqLog = <<>>
    /\ result = <<>>
    /\ calls = 1
    /\ run = 1
    /\ first = <<>>
    /\ fails = 0
    /\ ipc = "call"
    /\ user_input \in Identifiers
    /\ org \in BOOLEAN
    /\ profiles \in [Logins -> ProfileAnswers]
    /\ mpage = 1
    /\ all_members = <<>>
    /\ memberLog = <<>>
    /\ midx = 1
    /\ profLog = <<>>
    /\ resolved = NoUser
    /\ cpc = "off"
    /\ token = TRUE
    /\ args = <<>>
    /\ resolved_username = NoUser
    /\ requests = 0
    /\ exit_code = -1
    /\ config_error = FALSE
    /\ tpc = "off"
    /\ method = "GET"
    /\ response = Unasked
    /\ netcalls = 0
    /\ returned = None

\* validate_user_input(user_input, org) is called.  An identifier with "@"
\* goes to get_user_from_email, which lists the members when org is given
\* and gives up otherwise; a username is looked up at once.
ValidateUserInput ==
    /\ ipc = "call"
    /\ IF HasAt(user_input)
       THEN IF org
            THEN /\ ipc' = "members"
                 /\ mpage' = 1
                 /\ all_members' = <<>>
                 /\ UNCHANGED resolved
            ELSE /\ ipc' = "done"
                 /\ resolved' = NoUser
                 /\ UNCHANGED <<mpage, all_members>>
       ELSE \E o \in {ConnError, NotFound, ErrorNotObject, HttpEmpty(204),
                       Http(200, Profile(<<>>))} :
                LET r == make_request(o) IN
                /\ IF Raised(r)
                   THEN ipc' = "raised" /\ UNCHANGED resolved
                   ELSE /\ resolved' = IF r.type # "None" THEN user_input ELSE NoUser
                        /\ ipc' = "done"
                /\ UNCHANGED <<mpage, all_members>>
    /\ UNCHANGED <<user_input, org, profiles, memberLog, midx, profLog, accessVars, cliVars, transportVars>>

\* One iteration of `while True` of get_user_from_email.
MembersPage ==
    /\ ipc = "members"
    /\ \E o \in {ConnError} \cup MemberPageAnswers(MaxMembers - Len(all_members)) :
         LET r == make_request(o) IN
         IF Raised(r)
         THEN /\ ipc' = "raised"
              /\ UNCHANGED <<memberLog, midx, mpage, all_members>>
         ELSE /\ memberLog' = Append(memberLog, [page |-> mpage, resp |-> r])
              /\ IF PageStops(r)
                 THEN /\ midx' = 1
                      /\ ipc' = "profiles"
                      /\ UNCHANGED <<mpage, all_members>>
                 ELSE /\ all_members' = Extend(all_members, r.items)
                      /\ mpage' = NextPage(mpage)
                      /\ UNCHANGED <<ipc, midx>>
    /\ UNCHANGED <<user_input, org, profiles, profLog, resolved, accessVars, cliVars, transportVars>>

\* One iteration of `for member in all_members`.
ProfileLookup ==
    /\ ipc = "profiles"
    /\ midx <= Len(all_members)
    /\ \E o \in {ConnError, profiles[all_members[midx]]} :
         LET r == make_request(o) IN
         IF Raised(r)
         THEN /\ ipc' = "raised"
              /\ UNCHANGED <<profLog, resolved, midx>>
         ELSE /\ profLog' = Append(profLog, r)
              /\ IF EmailMatches(r, user_input)
                 THEN /\ resolved' = all_members[midx]
                      /\ ipc' = "done"
                      /\ UNCHANGED midx
                 ELSE /\ midx' = midx + 1
                      /\ UNCHANGED <<resolved, ipc>>
    /\ UNCHANGED <<user_input, org, profiles, mpage, all_members, memberLog, accessVars, cliVars, transportVars>>

\* No member matched: get_user_from_email and validate_user_input return None.
NoMemberMatches ==
    /\ ipc = "profiles"
    /\ midx > Len(all_members)
    /\ resolved' = NoUser
    /\ ipc' = "done"
    /\ UNCHANGED <<user_input, org, profiles, mpage, all_members, memberLog, midx,
                   profLog, accessVars, cliVars, transportVars>>

NextIdent ==
    \/ ValidateUserInput
    \/ MembersPage
    \/ ProfileLookup
    \/ NoMemberMatches

SpecIdent == InitIdent /\ [][NextIdent]_vars

\* ------------------------------------------------------------- command line
Actions ==
    { "create-team", "delete-team", "add-repo", "remove-repo", "add-user",
      "remove-user", "create-repo", "user-access", "list-teams", "list-repos",
      "list-orgs", "list-users", "list-users-access" }

\* The parsed arguments: the action, which flags were given, and whether
\* --user is absent, a username or an email address.
ArgSets ==
    [ action : Actions, org : BOOLEAN, team : BOOLEAN, repo : BOOLEAN,
      permission : BOOLEAN, repo_name : BOOLEAN, user : {"none", "name", "email"} ]

\* The requests of a sub-call that loops over pages or records.
Burst == 1..MaxBurst

\* The script is started with or without TOKEN, with any arguments argparse
\* accepts.
InitCli ==
    /\ pc = "off"
    /\ srv = InitSrv
    /\ page = 1
    /\ all_repos = <<>>
    /\ pageLog = <<>>
    /\ repos = <<>>
    /\ idx = 1
    /\ access_repos = <<>>
    /\ user_teams = None
    /\ tidx = 1
    /\ log = <<>>
    /\ reqLog = <<>>
    /\ result = <<>>
    /\ calls = 1
    /\ run = 1
    /\ first = <<>>
    /\ fails = 0
    /\ ipc = "off"
    /\ user_input = <<>>
    /\ org = FALSE
    /\ profiles = <<>>
    /\ mpage = 1
    /\ all_members = <<>>
    /\ memberLog = <<>>
    /\ midx = 1
    /\ profLog = <<>>
    /\ resolved = NoUser
    /\ cpc = "load"
    /\ token \in BOOLEAN
    /\ args \in ArgSets
    /\ resolved_username = NoUser
    /\ requests = 0
    /\ exit_code = -1
    /\ config_error = FALSE
    /\ tpc = "off"
    /\ method = "GET"
    /\ response = Unasked
    /\ netcalls = 0
    /\ returned = None

\* sys.exit(code)
Exit(code, isConfig) ==
    /\ cpc' = "exit"
    /\ exit_code' = code
    /\ config_error' = isConfig

\* The script ran to its end; or one of the requests made make_request raise,
\* and the interpreter ended the script with a traceback and status 1.
Finish ==
    /\ cpc' = "exit"
    /\ exit_code' \in {0, 1}
    /\ config_error' = FALSE

\* The module is loaded: TOKEN is read from the environment.
LoadModule ==
    /\ cpc = "load"
    /\ IF ~token
       THEN Exit(1, TRUE)
       ELSE cpc' = "main" /\ UNCHANGED <<exit_code, config_error>>
    /\ UNCHANGED <<token, args, resolved_username, requests, accessVars, identVars, transportVars>>

\* main: the arguments are parsed; --org is checked.
Main ==
    /\ cpc = "main"
    /\ IF args.action # "list-orgs" /\ ~args.org
       THEN Exit(1, TRUE)
       ELSE cpc' = "run" /\ UNCHANGED <<exit_code, config_error>>
    /\ UNCHANGED <<token, args, resolved_username, requests, accessVars, identVars, transportVars>>

NeedsUser == {"add-user", "remove-user", "user-access"}

\* What validate_user_input(args.user, args.org) costs and returns: a
\* username takes one request; an email address takes the member pages and
\* the profiles when --org is given, and nothing otherwise.
ValidateOutcomes ==
    IF args.user = "name"
    THEN { [n |-> 1, login |-> u] : u \in {NoUser, Bob} }
    ELSE IF args.org
         THEN { [n |-> k, login |-> u] : k \in Burst, u \in {NoUser} \cup Logins }
         ELSE { [n |-> 0, login |-> NoUser] }

\* run_action, first part: --user is resolved before the action is looked at.
ResolveUser ==
    /\ cpc = "run"
    /\ IF args.user = "none"
       THEN /\ cpc' = "dispatch"
            /\ UNCHANGED <<resolved_username, requests, exit_code, config_error>>
       ELSE \E v \in ValidateOutcomes :
            /\ resolved_username' = v.login
            /\ requests' = requests + v.n
            /\ IF v.login = NoUser /\ args.action \in NeedsUser
               THEN Exit(1, FALSE)
               ELSE cpc' = "dispatch" /\ UNCHANGED <<exit_code, config_error>>
    /\ UNCHANGED <<token, args, accessVars, identVars, transportVars>>

\* The branches of run_action.  A branch that misses a flag exits with 1;
\* otherwise it makes its calls.
CliFrame == UNCHANGED <<token, args, resolved_username, accessVars, identVars, transportVars>>

\* list-orgs, create-team, create-repo: one request.
DoListOrgs ==
    /\ cpc = "dispatch" /\ args.action = "list-orgs"
    /\ requests' = requests + 1
    /\ Finish
    /\ CliFrame

\* list-teams, list-repos, list-users, list-users-access: pages (and records).
DoListing ==
    /\ cpc = "dispatch"
    /\ args.action \in {"list-teams", "list-repos", "list-users", "list-users-access"}
    /\ \E k \in Burst : requests' = requests + k
    /\ Finish
    /\ CliFrame

DoCreateTeam ==
    /\ cpc = "dispatch" /\ args.action = "create-team"
    /\ IF ~args.team
       THEN Exit(1, TRUE) /\ UNCHANGED requests
       ELSE requests' = requests + 1 /\ Finish
    /\ CliFrame

\* get_team_by_name lists the teams; the team is found or not; when found,
\* one more request acts on it.
TeamCall(found) == { k + (IF found THEN 1 ELSE 0) : k \in Burst }

\* delete-team, add-repo, remove-repo
DoTeamRepo ==
    /\ cpc = "dispatch"
    /\ args.action \in {"delete-team", "add-repo", "remove-repo"}
    /\ LET given == CASE args.action = "delete-team" -> args.team
                      [] args.action = "add-repo" ->
                            args.team /\ args.repo /\ args.permission
                      [] args.action = "remove-repo" -> args.team /\ args.repo
       IN IF ~given
          THEN Exit(1, TRUE) /\ UNCHANGED requests
          ELSE \E found \in BOOLEAN : \E k \in TeamCall(found) :
                   requests' = requests + k /\ Finish
    /\ CliFrame

\* add-user, remove-user
DoTeamUser ==
    /\ cpc = "dispatch"
    /\ args.action \in {"add-user", "remove-user"}
    /\ IF ~(args.team /\ resolved_username # NoUser)
       THEN Exit(1, TRUE) /\ UNCHANGED requests
       ELSE \E found \in BOOLEAN : \E k \in TeamCall(found) :
                /\ requests' = requests + k
                /\ IF found THEN Finish ELSE Exit(1, FALSE)
    /\ CliFrame

DoCreateRepo ==
    /\ cpc = "dispatch" /\ args.action = "create-repo"
    /\ IF ~args.repo_name
       THEN Exit(1, TRUE) /\ UNCHANGED requests
       ELSE requests' = requests + 1 /\ Finish
    /\ CliFrame

\* user-access: get_user_repo_access lists the repositories and looks them up.
DoUserAccess ==
    /\ cpc = "dispatch" /\ args.action = "user-access"
    /\ IF resolved_username = NoUser
       THEN Exit(1, TRUE) /\ UNCHANGED requests
       ELSE (\E k \in Burst : requests' = requests + k) /\ Finish
    /\ CliFrame

NextCli ==
    \/ LoadModule
    \/ Main
    \/ ResolveUser
    \/ DoListOrgs
    \/ DoListing
    \/ DoCreateTeam
    \/ DoTeamRepo
    \/ DoTeamUser
    \/ DoCreateRepo
    \/ DoUserAccess

SpecCli == InitCli /\ [][NextCli]_vars

\* ------------------------------------------------------------- make_request
\* The methods callers pass, and one that make_request does not support.
Methods == {"GET", "POST", "PUT", "DELETE"}
MethodArgs == Methods \cup {"PATCH"}

Statuses == {200, 201, 204, 302, 404, 500}

\* The bodies of a response: JSON objects with and without "message", an
\* array, a string, null, and text that is not JSON; or no body at all.
Bodies ==
    { Dict({"message"}, ""), Dict({"permission", "user"}, "push"),
      List(<<"api">>), List(<<>>), Scalar, None, NotJson }

\* What requests.get/post/put/delete produces: an exception of the library
\* (connection error, timeout), or a response.
HttpOutcomes ==
    {ConnError} \cup { HttpEmpty(st) : st \in Statuses }
                \cup { Http(st, b) : st \in Statuses, b \in Bodies }

\* make_request(method, endpoint) is called, with any method and any server.
InitTransport ==
    /\ pc = "off"
    /\ srv = InitSrv
    /\ page = 1
    /\ all_repos = <<>>
    /\ pageLog = <<>>
    /\ repos = <<>>
    /\ idx = 1
    /\ access_repos = <<>>
    /\ user_teams = None
    /\ tidx = 1
    /\ log = <<>>
    /\ reqLog = <<>>
    /\ result = <<>>
    /\ calls = 1
    /\ run = 1
    /\ first = <<>>
    /\ fails = 0
    /\ ipc = "off"
    /\ user_input = <<>>
    /\ org = FALSE
    /\ profiles = <<>>
    /\ mpage = 1
    /\ all_members = <<>>
    /\ memberLog = <<>>
    /\ midx = 1
    /\ profLog = <<>>
    /\ resolved = NoUser
    /\ cpc = "off"
    /\ token = TRUE
    /\ args = <<>>
    /\ resolved_username = NoUser
    /\ requests = 0
    /\ exit_code = -1
    /\ config_error = FALSE
    /\ tpc = "call"
    /\ method \in MethodArgs
    /\ response = Unasked
    /\ netcalls = 0
    /\ returned = None

\* The dispatch on method.upper(): one call of the requests library, or a
\* ValueError for a method that is not supported (raised inside `try`, caught
\* by neither `except`).
SendRequest ==
    /\ tpc = "call"
    /\ IF method \in Methods
       THEN /\ \E o \in HttpOutcomes : response' = o
            /\ netcalls' = netcalls + 1
            /\ tpc' = "sent"
            /\ UNCHANGED returned
       ELSE /\ returned' = ValueError
            /\ tpc' = "raised"
            /\ UNCHANGED <<response, netcalls>>
    /\ UNCHANGED <<method, accessVars, identVars, cliVars>>

\* The rest of make_request: the status check, the body, the `except`s.
HandleResponse ==
    /\ tpc = "sent"
    /\ returned' = make_request(response)
    /\ tpc' = IF Raised(make_request(response)) THEN "raised" ELSE "returned"
    /\ UNCHANGED <<method, response, netcalls, accessVars, identVars, cliVars>>

NextTransport ==
    \/ SendRequest
    \/ HandleResponse

SpecTransport == InitTransport /\ [][NextTransport]_vars

\* ------------------------------------------------------------- properties
\* A returned value that carries a permission.
ReturnsPermission(r) == r.type = "dict" /\ "permission" \in r.keys

\* The two shapes of an entry of the report.
Direct(name, p) == <<name, " (Direct: ", p, ")">>
ViaTeam(name, teamName, p) == <<name, " (Via team '", teamName, "': ", p, ")">>

EntryRepo(e) == e[1]

\* The entries of s for the repository name.
EntriesFor(s, name) == { k \in 1..Len(s) : EntryRepo(s[k]) = name }

RepoList(s) == [k \in 1..Len(s) |-> EntryRepo(s[k])]

\* The first team lookup of a position that returned a permission (0: none).
FirstTeam(rec) ==
    LET hits == { k \in 1..Len(rec.tperms) : ReturnsPermission(rec.tperms[k]) }
    IN IF hits = {} THEN 0 ELSE CHOOSE k \in hits : \A j \in hits : k <= j

\* What the lookups of one position of the listing grant: nothing, or one entry.
GrantOf(rec) ==
    LET k == FirstTeam(rec) IN
    IF ReturnsPermission(rec.direct)
    THEN <<Direct(rec.repo, rec.direct.permission)>>
    ELSE IF k = 0 THEN <<>>
    ELSE <<ViaTeam(rec.repo, rec.teams.items[k].name, rec.tperms[k].permission)>>

RECURSIVE GrantsUpTo(_, _)
GrantsUpTo(lg, n) == IF n = 0 THEN <<>> ELSE GrantsUpTo(lg, n - 1) \o GrantOf(lg[n])

\* The place in the result of the entry of position i of the listing.
EntryIndex(lg, i) == Len(GrantsUpTo(lg, i))

Done == pc = "done"

\* The listing has no repository twice.
NoRepeat(s) == \A i, j \in 1..Len(s) : i # j => s[i] # s[j]

\* C1: when the direct lookup of a listed repository R returns a permission
\* P, the result has exactly one entry for R, and it is Direct with P.
C1_DirectExactlyOne ==
    Done => \A i \in 1..Len(log) :
        ReturnsPermission(log[i].direct) =>
            LET ks == EntriesFor(result, log[i].repo) IN
            /\ Cardinality(ks) = 1
            /\ \A k \in ks : result[k] = Direct(log[i].repo, log[i].direct.permission)

\* C1 for the listings that name no repository twice.
C1_DirectExactlyOne_NoRepeat == NoRepeat(repos) => C1_DirectExactlyOne

\* C2: for a listed repository without direct grant, the entry is ViaTeam of
\* the first team, in listing order, whose lookup returned a permission, with
\* that permission, whatever the later teams have.
C2_FirstTeamWins ==
    /\ Done => result = access_repos
    /\ \A i \in 1..Len(log) :
        LET rec == log[i]
            t == FirstTeam(rec)
            n == EntryIndex(log, i)
        IN  (~ReturnsPermission(rec.direct) /\ t # 0) =>
            /\ n \in 1..Len(access_repos)
            /\ access_repos[n] =
                 ViaTeam(rec.repo, rec.teams.items[t].name, rec.tperms[t].permission)
            /\ \A k \in 1..(t - 1) : ~ReturnsPermission(rec.tperms[k])

\* The first team returned "push" while the server has "admin" for the
\* second team on the same repository.
C2_Witness ==
    /\ Done
    /\ \E i \in 1..Len(log) :
        /\ ~ReturnsPermission(log[i].direct)
        /\ Len(log[i].teams.items) = 2
        /\ FirstTeam(log[i]) = 1
        /\ log[i].tperms[1].permission = "push"
        /\ srv.teamrepo[log[i].teams.items[2].slug][log[i].repo].json.permission = "admin"
        /\ result[EntryIndex(log, i)] = ViaTeam(log[i].repo, log[i].teams.items[1].name, "push")

\* C3: a listed repository whose direct lookup and team lookups all returned
\* no permission has no entry in the result.
NoGrantFor(name) ==
    \A i \in 1..Len(log) : log[i].repo = name =>
        /\ ~ReturnsPermission(log[i].direct)
        /\ \A k \in 1..Len(log[i].tperms) : ~ReturnsPermission(log[i].tperms[k])

Listed(name) == \E i \in 1..Len(repos) : repos[i] = name

C3_NoGrantNoEntry ==
    Done => \A name \in RepoNames :
        (Listed(name) /\ NoGrantFor(name)) => EntriesFor(result, name) = {}

\* A repository whose team lookup answered without a permission is left out
\* while another one is reported.
C3_Witness ==
    /\ Done
    /\ Len(result) = 1
    /\ Len(repos) = 2
    /\ \E i \in 1..Len(log) :
        /\ NoGrantFor(log[i].repo)
        /\ Len(log[i].tperms) = 2
        /\ log[i].tperms[1].type = "dict"
        /\ log[i].tperms[2].type = "None"
        /\ EntriesFor(result, log[i].repo) = {}

\* C4: the pages are requested in order 1, 2, 3, ..; the listing is the
\* concatenation, in order and with repetitions kept, of the pages before the
\* first one that is empty or a failure.
Stops(r) == r.type = "None" \/ (r.type = "list" /\ r.items = <<>>)

RECURSIVE ConcatPages(_, _)
ConcatPages(pl, n) == IF n <= 0 THEN <<>> ELSE ConcatPages(pl, n - 1) \o pl[n].resp.items

Complete(i) == i < idx \/ Done

C5_FailureTolerant ==
    /\ access_repos = GrantsUpTo(log, Len(log))
    /\ Len(log) <= Len(repos)
    /\ \A i \in 1..Len(log) :
        /\ log[i].repo = repos[i]
        /\ (Complete(i) /\ ~ReturnsPermission(log[i].direct)) =>
             /\ log[i].asked
             /\ (log[i].teams.type = "list" /\ FirstTeam(log[i]) = 0) =>
                  Len(log[i].tperms) = Len(log[i].teams.items)
    /\ Done => (Len(log) = Len(repos) /\ result = access_repos)
    /\ \/ Done
       \/ ENABLED Next
       \/ pc = "raised" /\ reqLog[Len(reqLog)].kind = "repos"

\* C5 for the runs in which no exception has left make_request.
C5_FailureTolerant_NoRaise == pc # "raised" => C5_FailureTolerant

\* The lookup of the first team failed and the second team is reported; the
\* teams listing of the next repository failed and nothing changed.
C5_Witness ==
    /\ Done
    /\ Len(log) = 2
    /\ Len(log[1].tperms) = 2
    /\ log[1].tperms[1] = None
    /\ FirstTeam(log[1]) = 2
    /\ log[2].asked /\ log[2].teams = None
    /\ result = GrantOf(log[1])

\* C6: the result has at most one entry for a repository name.
C6_OneEntryPerRepo ==
    Done => \A name \in RepoNames : Cardinality(EntriesFor(result, name)) <= 1

\* C6 for the listings that name no repository twice.
C6_OneEntryPerRepo_NoRepeat == NoRepeat(repos) => C6_OneEntryPerRepo

\* C7: the repository names of the result are, in order, a subsequence of
\* the repository names of the listing.
RECURSIVE IsSubseq(_, _)
IsSubseq(s, t) ==
    IF s = <<>> THEN TRUE
    ELSE IF t = <<>> THEN FALSE
    ELSE IF Head(s) = Head(t) THEN IsSubseq(Tail(s), Tail(t))
    ELSE IsSubseq(s, Tail(t))

C7_ListingOrder ==
    /\ IsSubseq(RepoList(access_repos), repos)
    /\ Done => IsSubseq(RepoList(result), repos)

\* org "acme": alice has "push" on api directly and "admin" on web through
\* the team frontend.
C7_Witness ==
    /\ Done
    /\ repos = <<"api", "web">>
    /\ result = <<Direct("api", "push"), ViaTeam("web", "frontend", "admin")>>

\* C9: two calls in succession for the same (org, username), with nothing
\* changed in the organisation in between, return the same sequence.
SecondDone == Done /\ run = 2

SameLetter(c, d) == c = d \/ {c, d} \in { {"a", "A"}, {"b", "B"}, {"c", "C"} }

EqualIgnoringCase(a, b) ==
    Len(a) = Len(b) /\ \A i \in 1..Len(a) : SameLetter(a[i], b[i])

HasEmail(r, email) == r.type = "dict" /\ r.email # <<>> /\ EqualIgnoringCase(r.email, email)

\* The first position of ms that satisfies P (0: none).
FirstOf(ms, P(_)) ==
    LET hits == { k \in 1..Len(ms) : P(k) }
    IN IF hits = {} THEN 0 ELSE CHOOSE k \in hits : \A j \in hits : k <= j

IdentDone == ipc = "done" /\ HasAt(user_input)

ConfigExit == cpc = "exit" /\ config_error

C10_ConfigErrorBeforeRequests == ConfigExit => (exit_code # 0 /\ requests = 0)

\* C10 for the command lines without --user.
C10_ConfigErrorBeforeRequests_NoUser ==
    (cpc # "off" /\ args.user = "none") => C10_ConfigErrorBeforeRequests

\* ------------------------------------------------------------- C11
\* The invocation is over, by a return or by an exception; the method is one
\* of the four of the contract.
TransportOver == tpc \in {"returned", "raised"} /\ method \in Methods

\* The status is one of 200, 201, 204 and the body is empty or parses as JSON.
SuccessCase ==
    /\ ~response.exc
    /\ response.status \in {200, 201, 204}
    /\ (response.empty \/ response.json.type # "notjson")

\* The parsed body, or the empty value for an empty body.
SuccessValue == IF response.empty THEN Dict({}, "") ELSE response.json

\* The failure value handed to the caller.
FailureValue == None

\* C11: make_request returns a success value (the parsed body, or an empty
\* value for an empty body) exactly when the status is 200, 201 or 204 and
\* the body is empty or parses as JSON; in every other case (another status,
\* a connection error or timeout, an unparseable body) it returns the failure
\* value; it never raises, and it issues exactly one network call.
C11_TransportContract ==
    TransportOver =>
        /\ tpc = "returned"
        /\ netcalls = 1
        /\ IF SuccessCase
           THEN returned = SuccessValue /\ returned # FailureValue
           ELSE returned = FailureValue

\* The parts of C11 one by one.  No retry: one network call per invocation.
C11_OneNetworkCall == TransportOver => netcalls = 1

\* No exception leaves make_request.
C11_NeverRaises == TransportOver => tpc = "returned"

\* A response as the GitHub API documents it: the body of an error status
\* is empty, not JSON, or an object; the body of a success status is not null.
DocumentedResponse ==
    \/ response.exc
    \/ response.empty
    \/ response.json.type \in {"dict", "notjson"}
    \/ response.status \in {200, 201, 204} /\ response.json.type # "None"

\* C11 holds for the documented responses.
C11_TransportContract_Documented == DocumentedResponse => C11_TransportContract

\* ------------------------------------------------------------- C12
\* The k-th request of the call returned a permission.
Granted(k) == ReturnsPermission(reqLog[k].ret)

\* The k-th request is followed, if by any, by the direct lookup of the next
\* position of the listing; and it is followed by one when the call has
\* returned and the listing has a next position.
ThenNextRepository(k) ==
    LET q == reqLog[k] IN
    /\ k < Len(reqLog) =>
         /\ reqLog[k + 1].kind = "direct"
         /\ reqLog[k + 1].pos = q.pos + 1
         /\ reqLog[k + 1].name = repos[q.pos + 1]
    /\ (Done /\ q.pos < Len(repos)) => k < Len(reqLog)

\* C12: once the direct lookup of a repository of the listing has returned a
\* permission, no team-membership request and no team-permission request is
\* issued for it; once the lookup of a team has returned a permission on it,
\* no permission request of a later team is issued for it; in both cases the
\* next request is the direct lookup of the next repository of the listing.
C12_ShortCircuit ==
    \A k \in 1..Len(reqLog) :
        LET q == reqLog[k] IN
        /\ (q.kind = "direct" /\ Granted(k)) =>
             /\ \A j \in 1..Len(reqLog) :
                    reqLog[j].kind \in {"teams", "teamperm"} => reqLog[j].pos # q.pos
             /\ ThenNextRepository(k)
        /\ (q.kind = "teamperm" /\ Granted(k)) =>
             /\ \A j \in 1..Len(reqLog) :
                    (reqLog[j].kind = "teamperm" /\ reqLog[j].pos = q.pos) =>
                        reqLog[j].team <= q.team
             /\ ThenNextRepository(k)

\* The direct lookup of api returned a permission and the next request was
\* the direct lookup of web; the user is in two teams and the first has a
\* permission on web: the second was not asked, and the call returned.
C12_Witness ==
    /\ Done
    /\ repos = <<"api", "web">>
    /\ \E k \in 1..(Len(reqLog) - 3) :
         /\ reqLog[k].kind = "direct" /\ reqLog[k].name = "api" /\ Granted(k)
         /\ reqLog[k + 1].kind = "direct" /\ reqLog[k + 1].name = "web"
         /\ reqLog[k + 2].kind = "teams" /\ Len(reqLog[k + 2].ret.items) = 2
         /\ reqLog[k + 3].kind = "teamperm" /\ reqLog[k + 3].team = 1 /\ Granted(k + 3)
         /\ Len(reqLog) = k + 3

\* C12 by the name of the repository: no team request names a repository
\* whose direct lookup returned a permission earlier in the call.
C12_ShortCircuit_ByName ==
    \A k \in 1..Len(reqLog) :
        (reqLog[k].kind = "direct" /\ Granted(k)) =>
            \A j \in (k + 1)..Len(reqLog) :
                reqLog[j].kind = "teamperm" => reqLog[j].name # reqLog[k].name

====
